---- MODULE Spec2Model ----
(***************************************************************************)
(* A model of the serial-stamp WASM renderer (src-wasm/src): the sheet     *)
(* layout of render_sheet and generate_preview_png (lib.rs), the template  *)
(* resolver, the alpha compositor, the text anchor arithmetic and the QR   *)
(* sizing of ticket_renderer.rs, and the font cache of font_loader.rs.     *)
(*                                                                         *)
(* Arithmetic.  The code computes its geometry in f64/f32; the model       *)
(* computes the same expressions in exact rational arithmetic, a rational  *)
(* being a pair <<numerator, denominator>> with a positive denominator.    *)
(* The two agree except where the exact value lies within a rounding error *)
(* of a rounding boundary, and the input sets below stay clear of those.   *)
(* Millimetre inputs are whole numbers.  The u32 products and sums whose   *)
(* overflow matters keep their 32 bits: see "u32 arithmetic" below.        *)
(***************************************************************************)
EXTENDS Integers, Sequences, FiniteSets, TLC

VARIABLES
    config,     \* the SheetConfig both entry points of lib.rs are called with
    rs,         \* the frame of render_sheet: its inputs, locals and position
    pv,         \* the frame of generate_preview_png
    template,   \* resolve_template: the stamp's template string
    record,     \* resolve_template: the record, field name -> value
    resolve,    \* resolve_template: the frames of two calls on that input
    fit,        \* render_sheet's fitting of the template into a cell
    text,       \* the frame of TicketRenderer::render_text_stamp
    qr,         \* the frame of generate_qr_code
    px,         \* one pixel's way through TicketRenderer::render and the sheet
    pdf,        \* the frame of generate_pdf
    FONT_CACHE, \* font_loader's cache: the mutex and the map behind it
    loads,      \* the frames of the calls of load_font
    comp        \* the frame of composite_image

sheetVars == <<config, rs, pv>>

resolveVars == <<template, record, resolve>>

vars ==
    <<config, rs, pv, template, record, resolve, fit, text, qr, px, pdf,
      FONT_CACHE, loads, comp>>

\* What an action of one part leaves alone: the variables of the other parts.
notSheetVars ==
    <<template, record, resolve, fit, text, qr, px, pdf,
      FONT_CACHE, loads, comp>>

notResolveVars ==
    <<config, rs, pv, fit, text, qr, px, pdf,
      FONT_CACHE, loads, comp>>

notFitVars ==
    <<config, rs, pv, template, record, resolve, text, qr, px, pdf,
      FONT_CACHE, loads, comp>>

notTextVars ==
    <<config, rs, pv, template, record, resolve, fit, qr, px, pdf,
      FONT_CACHE, loads, comp>>

notPxVars ==
    <<config, rs, pv, template, record, resolve, fit, text, qr, pdf,
      FONT_CACHE, loads, comp>>

notPdfVars ==
    <<config, rs, pv, template, record, resolve, fit, text, qr, px,
      FONT_CACHE, loads, comp>>

notFontVars ==
    <<config, rs, pv, template, record, resolve, fit, text, qr, px, pdf, comp>>

notCompVars ==
    <<config, rs, pv, template, record, resolve, fit, text, qr, px, pdf,
      FONT_CACHE, loads>>

notQrVars ==
    <<config, rs, pv, template, record, resolve, fit, text, px, pdf,
      FONT_CACHE, loads, comp>>

----------------------------------------------------------------------------
(* Bounds of the model *)

MaxRows == 2
MaxCols == 2
MaxRecords == 5
MaxCellDim == 8
MaxTemplateDim == 5
MaxQrSize == 60
MaxStamps == 2
MaxTickets == 6
MaxLoads == 2
MaxOverlayDim == 2

----------------------------------------------------------------------------
(* Numeric helpers: what f64::round, `as u32` and min do *)

Min(a, b) == IF a <= b THEN a ELSE b

\* f64::round of the rational n/d (d > 0): to nearest, halves away from zero.
RoundHalfAway(n, d) ==
    IF n >= 0 THEN (2 * n + d) \div (2 * d) ELSE -((2 * (-n) + d) \div (2 * d))

\* `x as u32` of a float with integral part x: the part below zero saturates
\* to 0 (the upper saturation at 2^32 - 1 is out of reach of the inputs here).
AsU32(x) == IF x < 0 THEN 0 ELSE x

\* `x as u32` of the float n/d: truncation toward zero, then saturation.
TruncU32(n, d) == AsU32(IF n >= 0 THEN n \div d ELSE -((-n) \div d))

\* pixels_per_mm = dpi / 25.4, as the rational 10*dpi / 254.
PixelsPerMm(dpi) == <<10 * dpi, 254>>

\* (mm * pixels_per_mm).round() as u32, for mm the rational q.
MmToPxRound(q, dpi) ==
    AsU32(RoundHalfAway(q[1] * PixelsPerMm(dpi)[1], q[2] * PixelsPerMm(dpi)[2]))

\* (mm * pixels_per_mm) as u32, for mm the rational q.
MmToPxTrunc(q, dpi) ==
    TruncU32(q[1] * PixelsPerMm(dpi)[1], q[2] * PixelsPerMm(dpi)[2])

SatSub(a, b) == IF a >= b THEN a - b ELSE 0

----------------------------------------------------------------------------
(* u32 arithmetic.  A product of two u32 can pass 2^31, the largest number *)
(* that can be computed with here, so a byte count is kept as a pair       *)
(* <<hi, lo>> that stands for hi * 2^30 + lo with 0 <= lo < 2^30.  A u32   *)
(* is such a pair with hi < 4.                                             *)

Pow15 == 2^15

Pow28 == 2^28

Pow30 == 2^30

\* A number below 2^31 as a pair.
ToWide(n) == <<n \div Pow30, n % Pow30>>

WideLeq(a, b) == a[1] < b[1] \/ (a[1] = b[1] /\ a[2] <= b[2])

\* The product w * h in full, for w < 2^17 and h <= 2^16, by the halves of w.
WideMul(w, h) ==
    LET a == (w \div Pow15) * h
        b == (w % Pow15) * h
        low == (a % Pow15) * Pow15 + (b % Pow30)
    IN <<(a \div Pow15) + (b \div Pow30) + (low \div Pow30), low % Pow30>>

\* width * height * 4 in full: the bytes of a width x height RGBA image.
RgbaBytes(width, height) ==
    LET p == WideMul(width, height)
    IN <<4 * p[1] + (p[2] \div Pow28), (p[2] % Pow28) * 4>>

\* What a release build keeps of a u32 result: the value modulo 2^32.
WrapU32(x) == <<x[1] % 4, x[2]>>

\* Whether a u32 result passes 2^32 - 1: a debug build panics there
\* ("attempt to multiply with overflow", "attempt to add with overflow").
OverflowsU32(x) == x[1] >= 4

\* The two builds of the crate: what an overflowing u32 operation does.
Builds == {"release", "debug"}

\* a / b in usize for a below 2^31 and b a u32 other than zero.
DivByU32(a, b) ==
    IF WideLeq(b, ToWide(a)) THEN a \div (b[1] * Pow30 + b[2]) ELSE 0

----------------------------------------------------------------------------
(* Inputs of the sheet entry points *)

PaperSizes == {<<210, 297>>, <<20, 30>>}

\* <<top, right, bottom, left>>
Margins == {<<0, 0, 0, 0>>, <<10, 10, 10, 10>>, <<7, 5, 12, 7>>}

\* <<spacing_x, spacing_y>>
Spacings == {<<0, 0>>, <<5, 3>>}

SheetConfigs ==
    { [paper_width_mm |-> p[1], paper_height_mm |-> p[2],
       rows |-> r, cols |-> c,
       margin_top_mm |-> m[1], margin_right_mm |-> m[2],
       margin_bottom_mm |-> m[3], margin_left_mm |-> m[4],
       spacing_x_mm |-> s[1], spacing_y_mm |-> s[2]] :
        p \in PaperSizes, r \in 0..MaxRows, c \in 0..MaxCols,
        m \in Margins, s \in Spacings }

Dpis == {96, 300}

\* <<template_width, template_height>>
\* the second has a byte count of 2^32 + 131072.
TemplateSizes == {<<100, 50>>, <<32769, 32768>>}

\* The lengths of template_data tried with a template size: the length the
\* check of render_sheet computes and, where that is the true byte count,
\* one four bytes short of it.
TemplateLens(t) ==
    LET e == WrapU32(RgbaBytes(t[1], t[2]))
        n == e[1] * Pow30 + e[2]
    IN IF OverflowsU32(RgbaBytes(t[1], t[2])) THEN {n} ELSE {n, n - 4}

\* The lengths of image_data tried with a ticket size: k tickets and
\* perhaps three bytes more where the byte count of a ticket fits a u32,
\* and else the one length that bytes_per_ticket wraps to.
ImageLens(t) ==
    LET e == WrapU32(RgbaBytes(t[1], t[2]))
        n == e[1] * Pow30 + e[2]
    IN IF OverflowsU32(RgbaBytes(t[1], t[2])) THEN {n}
       ELSE {k * n + extra : k \in 0..MaxRecords, extra \in {0, 3}}

\* <<ticket_width_px, ticket_height_px>> handed to generate_preview_png
\* the last two have a byte count of 2^32 and of 2^32 + 131072.
TicketPxSizes ==
    {<<0, 30>>, <<40, 0>>, <<40, 30>>, <<65536, 16384>>, <<32769, 32768>>}

----------------------------------------------------------------------------
(* Geometry of render_sheet *)

\* ticket_width_mm / ticket_height_mm: the available size per ticket, as a
\* rational; 0.0 when the count is zero.
TicketDimMm(paper, margin_a, margin_b, count, spacing) ==
    IF count > 0
    THEN <<paper - margin_a - margin_b - (count - 1) * spacing, count>>
    ELSE <<0, 1>>

\* The check with < for <=: a zero dimension passes.
InvalidTicketDimensionsStrict(w_mm, h_mm) == w_mm[1] < 0 \/ h_mm[1] < 0

\* ticket_width_mm <= 0.0 || ticket_height_mm <= 0.0
InvalidTicketDimensions(w_mm, h_mm) == w_mm[1] <= 0 \/ h_mm[1] <= 0

\* The larger of the two ratios instead of the smaller.
UniformScaleMax(cell_w, cell_h, template_w, template_h) ==
    IF cell_w * template_h >= cell_h * template_w
    THEN <<cell_w, template_w>>
    ELSE <<cell_h, template_h>>

\* scale_x.min(scale_y) with scale_x = cell_w / template_w and
\* scale_y = cell_h / template_h (template sizes positive).
UniformScale(cell_w, cell_h, template_w, template_h) ==
    IF cell_w * template_h <= cell_h * template_w
    THEN <<cell_w, template_w>>
    ELSE <<cell_h, template_h>>

\* (template_dim as f32 * scale).round() as u32
ScaledDim(template_dim, scale) ==
    AsU32(RoundHalfAway(template_dim * scale[1], scale[2]))

\* (cell.saturating_sub(scaled)) / 2
CenterOffset(cell, scaled) == SatSub(cell, scaled) \div 2

\* row = i / cols, col = i % cols
GridRow(i, cols) == i \div cols

GridCol(i, cols) == i % cols

\* margin_px + index as u32 * (ticket_px + spacing_px)
CellOrigin(margin_px, index, ticket_px, spacing_px) ==
    margin_px + index * (ticket_px + spacing_px)

\* The count without the cap at one page.
RecordsToRenderUncapped(n_records, tickets_per_page) == n_records

\* records.len().min(tickets_per_page)
RecordsToRender(n_records, tickets_per_page) == Min(n_records, tickets_per_page)

\* template_data.len() != (template_width * template_height * 4) as usize
\* with the product computed in u32, as a release build computes it.
TemplateLenMismatch(len, template_w, template_h) ==
    ToWide(len) # WrapU32(RgbaBytes(template_w, template_h))

\* TicketRenderer::new: ImageBuffer::from_raw needs at least width*height*4
\* bytes (counted in usize with checked_mul, so without wrap-around), and
\* the font bytes must parse.
NewRendererOk(len, template_w, template_h, font_ok) ==
    WideLeq(RgbaBytes(template_w, template_h), ToWide(len)) /\ font_ok

----------------------------------------------------------------------------
(* render_sheet *)

RsIdle ==
    [pc |-> "idle", error |-> "none",
     dpi |-> 0, template_width |-> 0, template_height |-> 0,
     template_len |-> 0, n_records |-> 0,
     page_width_px |-> 0, page_height_px |-> 0, tickets_per_page |-> 0,
     ticket_width_mm |-> <<0, 1>>, ticket_height_mm |-> <<0, 1>>,
     target_ticket_width_px |-> 0, target_ticket_height_px |-> 0,
     scaled_template_width |-> 0, scaled_template_height |-> 0,
     margin_left_px |-> 0, margin_top_px |-> 0,
     spacing_x_px |-> 0, spacing_y_px |-> 0,
     records_to_render |-> 0, i |-> 0, placed |-> <<>>]

\* Lines 38-83: parse the request, size the page, derive the ticket size in
\* mm and reject a non-positive one.
RsBegin ==
    /\ rs.pc = "idle"
    /\ pv.pc \in {"idle", "done", "error", "panic"}
    /\ \E dpi \in Dpis, t \in TemplateSizes, n \in 0..MaxRecords :
       \E len \in TemplateLens(t) :
        LET w_mm == TicketDimMm(config.paper_width_mm, config.margin_left_mm,
                                config.margin_right_mm, config.cols,
                                config.spacing_x_mm)
            h_mm == TicketDimMm(config.paper_height_mm, config.margin_top_mm,
                                config.margin_bottom_mm, config.rows,
                                config.spacing_y_mm)
            bad == InvalidTicketDimensions(w_mm, h_mm)
        IN rs' = [rs EXCEPT
                !.pc = IF bad THEN "error" ELSE "prepare",
                !.error = IF bad THEN "Invalid ticket dimensions" ELSE "none",
                !.dpi = dpi,
                !.template_width = t[1], !.template_height = t[2],
                !.template_len = len,
                !.n_records = n,
                !.page_width_px = MmToPxRound(<<config.paper_width_mm, 1>>, dpi),
                !.page_height_px = MmToPxRound(<<config.paper_height_mm, 1>>, dpi),
                !.tickets_per_page = config.rows * config.cols,
                !.ticket_width_mm = w_mm, !.ticket_height_mm = h_mm]
    /\ UNCHANGED <<config, pv>>
    /\ UNCHANGED notSheetVars

\* Lines 85-128: the ticket size in pixels, the uniform scale, the template
\* length check, the renderer, the margins and spacing in pixels.  Where the
\* u32 product of line 102 overflows, a debug build panics and a release
\* build goes on with the wrapped value.
RsPrepare ==
    /\ rs.pc = "prepare"
    /\ \E font_ok \in BOOLEAN, build \in Builds :
        LET cw == MmToPxRound(rs.ticket_width_mm, rs.dpi)
            ch == MmToPxRound(rs.ticket_height_mm, rs.dpi)
            scale == UniformScale(cw, ch, rs.template_width, rs.template_height)
            panic == /\ build = "debug"
                     /\ OverflowsU32(RgbaBytes(rs.template_width,
                                               rs.template_height))
            badlen == TemplateLenMismatch(rs.template_len, rs.template_width,
                                          rs.template_height)
            badnew == ~NewRendererOk(rs.template_len, rs.template_width,
                                     rs.template_height, font_ok)
            stop == panic \/ badlen \/ badnew
        IN rs' = [rs EXCEPT
                !.pc = IF panic THEN "panic"
                       ELSE IF stop THEN "error" ELSE "loop",
                !.error = IF panic THEN "attempt to multiply with overflow"
                          ELSE IF badlen THEN "Invalid template data length"
                          ELSE IF badnew THEN "Failed to create renderer"
                          ELSE "none",
                !.target_ticket_width_px = cw,
                !.target_ticket_height_px = ch,
                !.scaled_template_width = ScaledDim(rs.template_width, scale),
                !.scaled_template_height = ScaledDim(rs.template_height, scale),
                !.margin_left_px =
                    IF stop THEN 0
                    ELSE MmToPxRound(<<config.margin_left_mm, 1>>, rs.dpi),
                !.margin_top_px =
                    IF stop THEN 0
                    ELSE MmToPxRound(<<config.margin_top_mm, 1>>, rs.dpi),
                !.spacing_x_px =
                    IF stop THEN 0
                    ELSE MmToPxRound(<<config.spacing_x_mm, 1>>, rs.dpi),
                !.spacing_y_px =
                    IF stop THEN 0
                    ELSE MmToPxRound(<<config.spacing_y_mm, 1>>, rs.dpi),
                !.records_to_render =
                    IF stop THEN 0
                    ELSE RecordsToRender(rs.n_records, rs.tickets_per_page)]
    /\ UNCHANGED <<config, pv>>
    /\ UNCHANGED notSheetVars

\* Lines 130-153: one iteration of the loop: render record i (which may
\* fail) and composite it, centred, into its cell.
RsRenderTicket ==
    /\ rs.pc = "loop"
    /\ rs.i < rs.records_to_render
    /\ \E render_ok \in BOOLEAN :
        LET row == GridRow(rs.i, config.cols)
            col == GridCol(rs.i, config.cols)
            cell_x_px == CellOrigin(rs.margin_left_px, col,
                                    rs.target_ticket_width_px, rs.spacing_x_px)
            cell_y_px == CellOrigin(rs.margin_top_px, row,
                                    rs.target_ticket_height_px, rs.spacing_y_px)
            offset_x == CenterOffset(rs.target_ticket_width_px,
                                     rs.scaled_template_width)
            offset_y == CenterOffset(rs.target_ticket_height_px,
                                     rs.scaled_template_height)
        IN IF render_ok
           THEN rs' = [rs EXCEPT
                    !.i = rs.i + 1,
                    !.placed = Append(rs.placed,
                        [record |-> rs.i, row |-> row, col |-> col,
                         cell_x_px |-> cell_x_px, cell_y_px |-> cell_y_px,
                         final_x |-> cell_x_px + offset_x,
                         final_y |-> cell_y_px + offset_y,
                         width |-> rs.scaled_template_width,
                         height |-> rs.scaled_template_height])]
           ELSE rs' = [rs EXCEPT !.pc = "error",
                                 !.error = "Failed to render ticket"]
    /\ UNCHANGED <<config, pv>>
    /\ UNCHANGED notSheetVars

\* Line 156: the loop is over, the sheet is returned.
RsReturn ==
    /\ rs.pc = "loop"
    /\ rs.i = rs.records_to_render
    /\ rs' = [rs EXCEPT !.pc = "done"]
    /\ UNCHANGED <<config, pv>>
    /\ UNCHANGED notSheetVars

----------------------------------------------------------------------------
(* generate_preview_png *)

PvIdle ==
    [pc |-> "idle", error |-> "none",
     ticket_width_px |-> 0, ticket_height_px |-> 0, image_len |-> 0,
     tickets_per_page |-> 0, page_width_px |-> 0, page_height_px |-> 0,
     bytes_per_ticket |-> 0, total_tickets |-> 0,
     margin_left_px |-> 0, margin_top_px |-> 0,
     spacing_x_px |-> 0, spacing_y_px |-> 0,
     tickets_to_render |-> 0, i |-> 0, placed |-> <<>>]

\* The dpi generate_preview_png assumes.
PreviewDpi == 300

\* Lines 168-209: the checks, the page size, the tickets in the buffer, the
\* margins and spacing in pixels.  bytes_per_ticket is a u32 product (line
\* 195): where it overflows a debug build panics and a release build goes on
\* with the wrapped value, and the division of line 196 panics when that
\* value is zero.
PvBegin ==
    /\ pv.pc = "idle"
    /\ rs.pc \in {"idle", "done", "error", "panic"}
    /\ \E t \in TicketPxSizes, build \in Builds :
       \E len \in ImageLens(t), bytes \in {RgbaBytes(t[1], t[2])} :
        LET bpt_u32 == WrapU32(bytes)
            bpt == bpt_u32[1] * Pow30 + bpt_u32[2]
            tpp == config.rows * config.cols
            zero == t[1] = 0 \/ t[2] = 0
            nogrid == ~zero /\ tpp = 0
            overflow == /\ ~zero /\ ~nogrid /\ build = "debug"
                        /\ OverflowsU32(bytes)
            divzero == ~zero /\ ~nogrid /\ ~overflow /\ bpt = 0
            panic == overflow \/ divzero
            total == IF zero \/ nogrid \/ panic THEN 0
                     ELSE DivByU32(len, bpt_u32)
            none == ~zero /\ ~nogrid /\ ~panic /\ total = 0
            bad == zero \/ nogrid \/ panic \/ none
        IN pv' = [pv EXCEPT
                !.pc = IF panic THEN "panic"
                       ELSE IF bad THEN "error" ELSE "loop",
                !.error = IF zero THEN "Invalid ticket dimensions (zero)"
                          ELSE IF nogrid
                          THEN "Invalid grid layout (zero rows or columns)"
                          ELSE IF overflow
                          THEN "attempt to multiply with overflow"
                          ELSE IF divzero THEN "attempt to divide by zero"
                          ELSE IF none THEN "No ticket images provided"
                          ELSE "none",
                !.ticket_width_px = t[1], !.ticket_height_px = t[2],
                !.image_len = len,
                !.tickets_per_page = IF zero THEN 0 ELSE tpp,
                !.page_width_px =
                    IF zero \/ nogrid THEN 0
                    ELSE MmToPxTrunc(<<config.paper_width_mm, 1>>, PreviewDpi),
                !.page_height_px =
                    IF zero \/ nogrid THEN 0
                    ELSE MmToPxTrunc(<<config.paper_height_mm, 1>>, PreviewDpi),
                !.bytes_per_ticket = IF zero \/ nogrid \/ overflow THEN 0 ELSE bpt,
                !.total_tickets = total,
                !.margin_left_px =
                    IF bad THEN 0
                    ELSE MmToPxTrunc(<<config.margin_left_mm, 1>>, PreviewDpi),
                !.margin_top_px =
                    IF bad THEN 0
                    ELSE MmToPxTrunc(<<config.margin_top_mm, 1>>, PreviewDpi),
                !.spacing_x_px =
                    IF bad THEN 0
                    ELSE MmToPxTrunc(<<config.spacing_x_mm, 1>>, PreviewDpi),
                !.spacing_y_px =
                    IF bad THEN 0
                    ELSE MmToPxTrunc(<<config.spacing_y_mm, 1>>, PreviewDpi),
                !.tickets_to_render = IF bad THEN 0 ELSE Min(total, tpp)]
    /\ UNCHANGED <<config, rs>>
    /\ UNCHANGED notSheetVars

\* Lines 211-255: one iteration of the loop: ticket i is blended onto the
\* page at its cell, pixel by pixel, clipped to the page.
PvPlaceTicket ==
    /\ pv.pc = "loop"
    /\ pv.i < pv.tickets_to_render
    /\ LET row == GridRow(pv.i, config.cols)
           col == GridCol(pv.i, config.cols)
       IN pv' = [pv EXCEPT
               !.i = pv.i + 1,
               !.placed = Append(pv.placed,
                   [ticket |-> pv.i, row |-> row, col |-> col,
                    x_px |-> CellOrigin(pv.margin_left_px, col,
                                        pv.ticket_width_px, pv.spacing_x_px),
                    y_px |-> CellOrigin(pv.margin_top_px, row,
                                        pv.ticket_height_px, pv.spacing_y_px)])]
    /\ UNCHANGED <<config, rs>>
    /\ UNCHANGED notSheetVars

\* Lines 257-262: the page is encoded and returned.
PvReturn ==
    /\ pv.pc = "loop"
    /\ pv.i = pv.tickets_to_render
    /\ pv' = [pv EXCEPT !.pc = "done"]
    /\ UNCHANGED <<config, rs>>
    /\ UNCHANGED notSheetVars

----------------------------------------------------------------------------
(* The sheet specification: one SheetConfig, each entry point called at    *)
(* most once, one call at a time (the module is single-threaded).          *)

SheetInit ==
    /\ config \in SheetConfigs
    /\ rs = RsIdle
    /\ pv = PvIdle

SheetNext ==
    \/ RsBegin
    \/ RsPrepare
    \/ RsRenderTicket
    \/ RsReturn
    \/ PvBegin
    \/ PvPlaceTicket
    \/ PvReturn

----------------------------------------------------------------------------
(* Claims about the sheet entry points *)

\* The ticket size in mm that the configuration allows, taken from the
\* configuration alone: strictly positive on both axes.
ConfigTicketPositive ==
    /\ config.cols > 0
    /\ config.rows > 0
    /\ config.paper_width_mm - config.margin_left_mm - config.margin_right_mm
         - (config.cols - 1) * config.spacing_x_mm > 0
    /\ config.paper_height_mm - config.margin_top_mm - config.margin_bottom_mm
         - (config.rows - 1) * config.spacing_y_mm > 0

\* C1: a call of render_sheet either has ticket_width_mm and ticket_height_mm
\* both strictly positive, or ends with the configuration error "Invalid
\* ticket dimensions" (rows = 0 and cols = 0 included) before any ticket is
\* rendered or composited; no call goes on past the check with a zero
\* dimension.
C1_TicketDimsPositiveOrError ==
    /\ rs.pc \in {"prepare", "loop", "done"} => ConfigTicketPositive
    /\ Len(rs.placed) > 0 => ConfigTicketPositive
    /\ (rs.pc # "idle" /\ ~ConfigTicketPositive) =>
           /\ rs.pc = "error"
           /\ rs.error = "Invalid ticket dimensions"
           /\ rs.placed = <<>>
           /\ rs.i = 0

\* C1 witness: a grid with no rows was rejected, nothing rendered.
C1_Witness ==
    /\ rs.pc = "error"
    /\ rs.error = "Invalid ticket dimensions"
    /\ config.rows = 0
    /\ config.cols > 0
    /\ rs.placed = <<>>

\* C3 (the claim as stated): for one SheetConfig, render_sheet at 300 dpi and
\* generate_preview_png derive the same page size, margins and spacing in
\* pixels.
C3_EntryPointsAgree ==
    (rs.pc \in {"loop", "done"} /\ rs.dpi = PreviewDpi
        /\ pv.pc \in {"loop", "done"}) =>
        /\ rs.page_width_px = pv.page_width_px
        /\ rs.page_height_px = pv.page_height_px
        /\ rs.margin_left_px = pv.margin_left_px
        /\ rs.margin_top_px = pv.margin_top_px
        /\ rs.spacing_x_px = pv.spacing_x_px
        /\ rs.spacing_y_px = pv.spacing_y_px

\* C5: record i of render_sheet goes to row i / cols, column i % cols, in the
\* cell whose top-left is (margin_left + col*(ticket_width + spacing_x),
\* margin_top + row*(ticket_height + spacing_y)); records are placed in
\* order, none with an index of rows*cols or more, and a call that returns
\* has placed exactly min(number of records, rows*cols) of them.
C5_RowMajorPlacement ==
    /\ \A k \in 1..Len(rs.placed) :
        LET t == rs.placed[k]
        IN /\ t.record = k - 1
           /\ t.record < config.rows * config.cols
           /\ t.record < rs.n_records
           /\ t.row = (k - 1) \div config.cols
           /\ t.col = (k - 1) % config.cols
           /\ t.row < config.rows
           /\ t.cell_x_px = rs.margin_left_px
                + t.col * (rs.target_ticket_width_px + rs.spacing_x_px)
           /\ t.cell_y_px = rs.margin_top_px
                + t.row * (rs.target_ticket_height_px + rs.spacing_y_px)
    /\ rs.pc = "done" =>
        Len(rs.placed) =
            IF rs.n_records <= config.rows * config.cols
            THEN rs.n_records ELSE config.rows * config.cols
    /\ (rs.pc = "error" /\ rs.error # "Failed to render ticket") =>
        rs.placed = <<>>

\* C5 witness: a call given more records than the page holds returned with
\* the page full, the last record in the last cell.
C5_Witness ==
    /\ rs.pc = "done"
    /\ config.rows = 2 /\ config.cols = 2
    /\ rs.n_records > 4
    /\ Len(rs.placed) = 4
    /\ rs.placed[4].row = 1 /\ rs.placed[4].col = 1
    /\ rs.spacing_x_px > 0

\* C11 (the claim as stated): a call of render_sheet that gets as far as the
\* template returns the error "Invalid template data length" (which reports
\* the expected and the actual length) exactly when the length of
\* template_data differs from the true product template_width *
\* template_height * 4, it does not crash, and it builds the renderer and
\* composites tickets only with a buffer of exactly that length, also where
\* the product passes 2^32.
C11_TemplateLengthChecked ==
    LET matches == ToWide(rs.template_len)
                       = RgbaBytes(rs.template_width, rs.template_height)
        checked == \/ rs.pc \in {"loop", "done", "panic"}
                   \/ rs.pc = "error" /\ rs.error # "Invalid ticket dimensions"
    IN /\ rs.pc # "panic"
       /\ checked => (rs.error = "Invalid template data length" <=> ~matches)
       /\ (rs.pc \in {"loop", "done"} \/ Len(rs.placed) > 0) => matches

\* C12 (the claim as stated): generate_preview_png does not crash; it
\* returns an error, and no image, whenever ticket_width_px or
\* ticket_height_px is zero, rows or cols is zero, or the buffer holds fewer
\* bytes than one ticket of ticket_width_px * ticket_height_px * 4 bytes; in
\* every other case it goes on and returns one page with min(complete
\* tickets in the buffer, rows * cols) tickets, ticket i in row i / cols and
\* column i % cols.
C12_PreviewErrorsAndPlacement ==
    LET one == RgbaBytes(pv.ticket_width_px, pv.ticket_height_px)
        zero == pv.ticket_width_px = 0 \/ pv.ticket_height_px = 0
        nogrid == config.rows = 0 \/ config.cols = 0
        short == ~WideLeq(one, ToWide(pv.image_len))
    IN /\ pv.pc # "panic"
       /\ (pv.pc # "idle" /\ (zero \/ nogrid \/ short)) =>
              pv.pc = "error" /\ pv.placed = <<>>
       /\ (pv.pc # "idle" /\ ~(zero \/ nogrid \/ short)) =>
              /\ pv.pc \in {"loop", "done"}
              /\ pv.pc = "done" =>
                     Len(pv.placed) = Min(DivByU32(pv.image_len, one),
                                          config.rows * config.cols)
              /\ \A k \in 1..Len(pv.placed) :
                     /\ pv.placed[k].ticket = k - 1
                     /\ pv.placed[k].row = (k - 1) \div config.cols
                     /\ pv.placed[k].col = (k - 1) % config.cols

----------------------------------------------------------------------------
(* resolve_template (ticket_renderer.rs).  A string is a sequence of        *)
(* one-character strings.                                                   *)

\* format!("{{{{{}}}}}", key): the key between two pairs of braces
Placeholder(key) == <<"{", "{">> \o key \o <<"}", "}">>

\* The number of places where pat occurs in s.
Occurrences(s, pat) ==
    Cardinality({ p \in 1..(Len(s) - Len(pat) + 1) :
                    SubSeq(s, p, p + Len(pat) - 1) = pat })

RECURSIVE ReplaceFirst(_, _, _)
\* str::replacen(pat, to, 1): only the first match is replaced.
ReplaceFirst(s, pat, to) ==
    IF Len(s) < Len(pat) THEN s
    ELSE IF SubSeq(s, 1, Len(pat)) = pat
         THEN to \o SubSeq(s, Len(pat) + 1, Len(s))
         ELSE <<s[1]>> \o ReplaceFirst(Tail(s), pat, to)

RECURSIVE Replace(_, _, _)
\* str::replace(pat, to): every non-overlapping match of pat, found left to
\* right, is replaced by to; the replacement text is not searched again.
Replace(s, pat, to) ==
    IF Len(s) < Len(pat) THEN s
    ELSE IF SubSeq(s, 1, Len(pat)) = pat
         THEN to \o Replace(SubSeq(s, Len(pat) + 1, Len(s)), pat, to)
         ELSE <<s[1]>> \o Replace(Tail(s), pat, to)

KeyA == <<"a">>
KeyB == <<"b">>
KeyC == <<"c">>
KeySerial == <<"s", "e", "r", "i", "a", "l">>
KeyOther == <<"o", "t", "h", "e", "r">>

TemplateNoSerial == <<"N", "o", ".", " ">> \o Placeholder(KeySerial)

Templates ==
    { <<>>,
      <<"x">>,
      Placeholder(KeyA),
      Placeholder(KeyA) \o Placeholder(KeyB),
      <<"x">> \o Placeholder(KeyA) \o <<"-">> \o Placeholder(KeyA),
      Placeholder(KeyC) \o Placeholder(KeyA),
      <<"{", "{">> \o Placeholder(KeyA) \o <<"b", "}", "}">>,
      TemplateNoSerial }

FieldValues ==
    { <<>>, <<"x">>, <<"y", "z">>, Placeholder(KeyA), Placeholder(KeyB) }

\* The records: every assignment of values to a subset of the fields a and b,
\* and the record with the one field "other".
Records ==
    UNION { [ks -> FieldValues] : ks \in SUBSET {KeyA, KeyB} }
        \cup { [k \in {KeyOther} |-> <<"x">>] }

AllKeys == {KeyA, KeyB, KeyC, KeySerial, KeyOther}

ResolveCalls == 1..2

ResolveIdle == [pc |-> "idle", result |-> <<>>, todo |-> {},
                key |-> <<>>, before |-> <<>>]

\* Line 287: result = template.to_string(); the iteration over the record
\* starts.
ResolveBegin(c) ==
    /\ resolve[c].pc = "idle"
    /\ \A d \in ResolveCalls : d < c => resolve[d].pc = "done"
    /\ resolve' = [resolve EXCEPT ![c] =
            [pc |-> "iter", result |-> template, todo |-> DOMAIN record,
             key |-> <<>>, before |-> <<>>]]
    /\ UNCHANGED <<template, record>>
    /\ UNCHANGED notResolveVars

\* Lines 289-292: one iteration of `for (key, value) in record`.  A HashMap
\* yields its entries in an order that depends on the map's hasher state,
\* which differs from one map to the next: any field not yet visited may be
\* the next one.
ResolveField(c) ==
    /\ resolve[c].pc = "iter"
    /\ \E key \in resolve[c].todo :
        resolve' = [resolve EXCEPT ![c] =
            [pc |-> "iter",
             result |-> Replace(resolve[c].result, Placeholder(key), record[key]),
             todo |-> resolve[c].todo \ {key},
             key |-> key, before |-> resolve[c].result]]
    /\ UNCHANGED <<template, record>>
    /\ UNCHANGED notResolveVars

\* Line 294: every field was visited; the result is returned.
ResolveReturn(c) ==
    /\ resolve[c].pc = "iter"
    /\ resolve[c].todo = {}
    /\ resolve' = [resolve EXCEPT ![c].pc = "done"]
    /\ UNCHANGED <<template, record>>
    /\ UNCHANGED notResolveVars

ResolveInit ==
    /\ template \in Templates
    /\ record \in Records
    /\ resolve = [c \in ResolveCalls |-> ResolveIdle]

ResolveNext ==
    \E c \in ResolveCalls :
        \/ ResolveBegin(c)
        \/ ResolveField(c)
        \/ ResolveReturn(c)

----------------------------------------------------------------------------
(* Claims about resolve_template *)

\* C2 (the claim as stated): two calls of resolve_template with the same
\* template and the same record return the same string, whatever the order
\* in which each call visits the record's fields.
C2_ResolveDeterministic ==
    (resolve[1].pc = "done" /\ resolve[2].pc = "done") =>
        resolve[1].result = resolve[2].result

\* A string without an opening brace.
BraceFree(s) == \A p \in 1..Len(s) : s[p] # "{"

\* C7: resolve_template has no error path; each field visited has every
\* occurrence of its {{field}} replaced by its value (the string grows by
\* the difference in length once per occurrence, and when the value holds no
\* brace no occurrence is left); a placeholder of a field absent from the
\* record is left where it is; and a template none of whose placeholders names
\* a field of the record is returned unchanged, as is "No. {{serial}}" for
\* the record with the one field "other".
C7_ResolveTemplate ==
    \A c \in ResolveCalls :
        LET f == resolve[c]
        IN /\ f.pc \in {"idle", "iter", "done"}
           /\ (f.pc # "idle" /\ f.key # <<>>) =>
                /\ Len(f.result) = Len(f.before)
                     + Occurrences(f.before, Placeholder(f.key))
                         * (Len(record[f.key]) - Len(Placeholder(f.key)))
                /\ BraceFree(record[f.key]) /\ Len(record[f.key]) > 0 =>
                     Occurrences(f.result, Placeholder(f.key)) = 0
                /\ Occurrences(f.before, Placeholder(f.key)) = 0 =>
                     f.result = f.before
           /\ f.pc # "idle" =>
                \A k \in AllKeys \ DOMAIN record :
                    Occurrences(f.result, Placeholder(k))
                        >= Occurrences(template, Placeholder(k))
           /\ (f.pc = "done"
                 /\ \A k \in DOMAIN record :
                        Occurrences(template, Placeholder(k)) = 0) =>
                f.result = template
           /\ (f.pc = "done" /\ template = TemplateNoSerial
                 /\ DOMAIN record = {KeyOther}) =>
                f.result = TemplateNoSerial

\* C7 witness: "No. {{serial}}" was resolved against the record with the one
\* field "other" and came back unchanged.
C7_Witness ==
    /\ resolve[1].pc = "done"
    /\ template = TemplateNoSerial
    /\ DOMAIN record = {KeyOther}
    /\ resolve[1].key = KeyOther
    /\ resolve[1].result = TemplateNoSerial

----------------------------------------------------------------------------
(* The fitting of the template into a cell, lib.rs lines 89-99 and 145-149, *)
(* over a range of cell and template sizes.                                 *)

CellDims == 0..MaxCellDim \cup {30, 60, 94}

TemplateDims == 1..MaxTemplateDim \cup {50, 100}

FitInit ==
    \E cw \in CellDims, ch \in CellDims, tw \in TemplateDims, th \in TemplateDims :
        fit = [pc |-> "start",
               target_ticket_width_px |-> cw, target_ticket_height_px |-> ch,
               template_width |-> tw, template_height |-> th,
               scaled_template_width |-> 0, scaled_template_height |-> 0,
               offset_x |-> 0, offset_y |-> 0]

\* Lines 93-99: the uniform scale and the scaled template size.
FitScale ==
    /\ fit.pc = "start"
    /\ LET scale == UniformScale(fit.target_ticket_width_px,
                                 fit.target_ticket_height_px,
                                 fit.template_width, fit.template_height)
       IN fit' = [fit EXCEPT
               !.pc = "scaled",
               !.scaled_template_width = ScaledDim(fit.template_width, scale),
               !.scaled_template_height = ScaledDim(fit.template_height, scale)]
    /\ UNCHANGED notFitVars

\* Lines 146-147: the offsets that centre the scaled template in the cell.
FitCenter ==
    /\ fit.pc = "scaled"
    /\ fit' = [fit EXCEPT
            !.pc = "placed",
            !.offset_x = CenterOffset(fit.target_ticket_width_px,
                                      fit.scaled_template_width),
            !.offset_y = CenterOffset(fit.target_ticket_height_px,
                                      fit.scaled_template_height)]
    /\ UNCHANGED notFitVars

FitNext == FitScale \/ FitCenter

\* The factor the claim names, min(cell_w/template_w, cell_h/template_h), as
\* a rational.
MinRatio(cw, ch, tw, th) ==
    IF cw * th <= ch * tw THEN <<cw, tw>> ELSE <<ch, th>>

\* n is x * q rounded to the nearest whole number: within one half of it.
NearestTo(n, x, q) ==
    /\ 2 * (n * q[2] - x * q[1]) <= q[2]
    /\ 2 * (x * q[1] - n * q[2]) <= q[2]

\* C4: the template is scaled on both axes by the one factor
\* min(cell_width/template_width, cell_height/template_height), rounded to
\* whole pixels, so that it exceeds the cell on neither axis and fills it on
\* one; its offset in the cell is floor((cell - scaled) / 2) on each axis; a
\* 100x50 template in a 60x60 cell becomes 60x30 at offset (0, 15).
C4_UniformScaleAndCentre ==
    LET cw == fit.target_ticket_width_px
        ch == fit.target_ticket_height_px
        tw == fit.template_width
        th == fit.template_height
        sw == fit.scaled_template_width
        sh == fit.scaled_template_height
        f == MinRatio(cw, ch, tw, th)
    IN /\ fit.pc \in {"scaled", "placed"} =>
            /\ NearestTo(sw, tw, f)
            /\ NearestTo(sh, th, f)
            /\ sw <= cw
            /\ sh <= ch
            /\ sw = cw \/ sh = ch
       /\ fit.pc = "placed" =>
            /\ 2 * fit.offset_x <= cw - sw /\ cw - sw <= 2 * fit.offset_x + 1
            /\ 2 * fit.offset_y <= ch - sh /\ ch - sh <= 2 * fit.offset_y + 1
       /\ (fit.pc = "placed" /\ tw = 100 /\ th = 50 /\ cw = 60 /\ ch = 60) =>
            /\ sw = 60 /\ sh = 30
            /\ fit.offset_x = 0 /\ fit.offset_y = 15

\* C4 witness: the 100x50 template was fitted into the 60x60 cell.
C4_Witness ==
    /\ fit.pc = "placed"
    /\ fit.template_width = 100 /\ fit.template_height = 50
    /\ fit.target_ticket_width_px = 60 /\ fit.target_ticket_height_px = 60
    /\ fit.scaled_template_height = 30
    /\ fit.offset_y = 15

----------------------------------------------------------------------------
(* TicketRenderer::render_text_stamp: the anchor and the drawing origin     *)

\* (stamp.x * scale_x) as i32: the product, truncated toward zero
ScaledAnchor(coord, scale) ==
    LET n == coord * scale[1]
    IN IF n >= 0 THEN n \div scale[2] ELSE -((-n) \div scale[2])

\* The centre case shifting by the whole width.
TextOriginXFullShift(anchor_x, alignment, text_width) ==
    IF alignment \in {"center", "right"} THEN anchor_x - text_width
    ELSE anchor_x

\* Lines 172-176: match stamp.alignment
TextOriginX(anchor_x, alignment, text_width) ==
    IF alignment = "center" THEN anchor_x - (text_width \div 2)
    ELSE IF alignment = "right" THEN anchor_x - text_width
    ELSE anchor_x

\* Lines 179-184: match stamp.vertical_align, "top" when it is absent
TextOriginY(anchor_y, vertical_align, text_height) ==
    LET v == IF vertical_align = "absent" THEN "top" ELSE vertical_align
    IN IF v = "middle" THEN anchor_y - (text_height \div 2)
       ELSE IF v = "bottom" THEN anchor_y - text_height
       ELSE anchor_y

StampXs == {0, 33, 100}

StampYs == {0, 50}

\* scale_x, scale_y of the ticket against the template, as rationals
StampScales == {<<1, 1>>, <<3, 5>>}

Alignments == {"left", "center", "right", "justify"}

\* "absent" stands for a stamp without verticalAlign (None)
VerticalAligns == {"absent", "top", "middle", "bottom"}

TextWidths == {1, 40, 41}

TextHeights == {10, 11}

TextInit ==
    \E x \in StampXs, y \in StampYs, sx \in StampScales, sy \in StampScales,
       a \in Alignments, v \in VerticalAligns, empty \in BOOLEAN :
        text = [pc |-> "start", x |-> x, y |-> y, scale_x |-> sx, scale_y |-> sy,
                alignment |-> a, vertical_align |-> v, empty |-> empty,
                anchor_x |-> 0, anchor_y |-> 0,
                text_width |-> 0, text_height |-> 0,
                text_x |-> 0, text_y |-> 0]

\* Lines 143-147: the resolved text is empty: nothing is drawn.
TextSkipEmpty ==
    /\ text.pc = "start"
    /\ text.empty
    /\ text' = [text EXCEPT !.pc = "skipped"]
    /\ UNCHANGED notTextVars

\* Lines 149-184: the anchor, the measured text size, the drawing origin.
TextLayout ==
    /\ text.pc = "start"
    /\ ~text.empty
    /\ \E w \in TextWidths, h \in TextHeights :
        LET ax == ScaledAnchor(text.x, text.scale_x)
            ay == ScaledAnchor(text.y, text.scale_y)
        IN text' = [text EXCEPT
                !.pc = "laid out",
                !.anchor_x = ax, !.anchor_y = ay,
                !.text_width = w, !.text_height = h,
                !.text_x = TextOriginX(ax, text.alignment, w),
                !.text_y = TextOriginY(ay, text.vertical_align, h)]
    /\ UNCHANGED notTextVars

TextNext == TextSkipEmpty \/ TextLayout

\* C9: the drawing origin of a text stamp is its anchor shifted by the
\* alignment: x by 0 for left, by width/2 for center, by the width for right;
\* y by 0 for top and for an absent verticalAlign, by height/2 for middle, by
\* the height for bottom; the anchor is the stamp's (x, y) scaled; anchor
\* (100, 50), right/bottom, text 40x10 gives the origin (60, 40).
C9_TextAnchor ==
    text.pc = "laid out" =>
        /\ text.anchor_x * text.scale_x[2] <= text.x * text.scale_x[1]
        /\ text.x * text.scale_x[1] < (text.anchor_x + 1) * text.scale_x[2]
        /\ text.anchor_y * text.scale_y[2] <= text.y * text.scale_y[1]
        /\ text.y * text.scale_y[1] < (text.anchor_y + 1) * text.scale_y[2]
        /\ text.alignment = "left" => text.text_x = text.anchor_x
        /\ text.alignment = "center" =>
             text.anchor_x - text.text_x = text.text_width \div 2
        /\ text.alignment = "right" =>
             text.anchor_x - text.text_x = text.text_width
        /\ text.vertical_align \in {"top", "absent"} =>
             text.text_y = text.anchor_y
        /\ text.vertical_align = "middle" =>
             text.anchor_y - text.text_y = text.text_height \div 2
        /\ text.vertical_align = "bottom" =>
             text.anchor_y - text.text_y = text.text_height
        /\ (text.anchor_x = 100 /\ text.anchor_y = 50
              /\ text.alignment = "right" /\ text.vertical_align = "bottom"
              /\ text.text_width = 40 /\ text.text_height = 10) =>
             (text.text_x = 60 /\ text.text_y = 40)

\* C9 witness: the stamp anchored at (100, 50), right/bottom, with a 40x10
\* text, was laid out.
C9_Witness ==
    /\ text.pc = "laid out"
    /\ text.anchor_x = 100 /\ text.anchor_y = 50
    /\ text.alignment = "right" /\ text.vertical_align = "bottom"
    /\ text.text_width = 40 /\ text.text_height = 10
    /\ text.text_x = 60 /\ text.text_y = 40

----------------------------------------------------------------------------
(* generate_qr_code *)

\* The module counts of QR versions 1 to 3
QrWidths == {21, 25, 29}

\* The quotient rounded down instead of up.
ModuleSizeFloor(size, qr_width) == size \div qr_width

\* Line 395: (size as f32 / qr_width as f32).ceil() as u32
ModuleSize(size, qr_width) == (size + qr_width - 1) \div qr_width

QrInit ==
    \E size \in 0..MaxQrSize :
        qr = [pc |-> "start", size |-> size, qr_width |-> 0,
              module_size |-> 0, actual_size |-> 0,
              img |-> <<0, 0>>, resized |-> FALSE]

\* Lines 380-392: the text is encoded; the encoder fixes the module count,
\* or fails (a text too long for a QR code).
QrEncode ==
    /\ qr.pc = "start"
    /\ \/ \E w \in QrWidths : qr' = [qr EXCEPT !.pc = "encoded", !.qr_width = w]
       \/ qr' = [qr EXCEPT !.pc = "error"]
    /\ UNCHANGED notQrVars

\* Lines 394-425: the module size, and the modules drawn into an image of
\* side module_size * qr_width.
QrRasterize ==
    /\ qr.pc = "encoded"
    /\ LET m == ModuleSize(qr.size, qr.qr_width)
       IN qr' = [qr EXCEPT !.pc = "drawn",
                           !.module_size = m,
                           !.actual_size = m * qr.qr_width,
                           !.img = <<m * qr.qr_width, m * qr.qr_width>>]
    /\ UNCHANGED notQrVars

\* Lines 428-429: the image is resampled to the size asked for.
QrResize ==
    /\ qr.pc = "drawn"
    /\ qr.actual_size # qr.size
    /\ qr' = [qr EXCEPT !.pc = "done", !.img = <<qr.size, qr.size>>,
                        !.resized = TRUE]
    /\ UNCHANGED notQrVars

\* Lines 430-431: the image already has the size asked for.
QrReturn ==
    /\ qr.pc = "drawn"
    /\ qr.actual_size = qr.size
    /\ qr' = [qr EXCEPT !.pc = "done"]
    /\ UNCHANGED notQrVars

QrNext == QrEncode \/ QrRasterize \/ QrResize \/ QrReturn

\* C10: the module size is ceil(size / module count), the intermediate image
\* has side module size * module count, it is resampled exactly when that
\* side differs from the size asked for, and the image returned is size x
\* size; size 29 with 29 modules: module size 1, not resampled; size 30 with
\* 29 modules: module size 2, a 58x58 intermediate, a 30x30 result.
C10_QrSizing ==
    /\ qr.pc \in {"drawn", "done"} =>
        /\ qr.module_size * qr.qr_width >= qr.size
        /\ qr.module_size * qr.qr_width < qr.size + qr.qr_width
        /\ qr.actual_size = qr.module_size * qr.qr_width
    /\ qr.pc = "drawn" => qr.img = <<qr.actual_size, qr.actual_size>>
    /\ qr.pc = "done" =>
        /\ qr.img = <<qr.size, qr.size>>
        /\ qr.resized <=> qr.actual_size # qr.size
    /\ (qr.pc = "done" /\ qr.size = 29 /\ qr.qr_width = 29) =>
        (qr.module_size = 1 /\ ~qr.resized)
    /\ (qr.pc = "done" /\ qr.size = 30 /\ qr.qr_width = 29) =>
        (qr.module_size = 2 /\ qr.actual_size = 58 /\ qr.resized
            /\ qr.img = <<30, 30>>)

\* C10 witness: size 30 with 29 modules went through a 58x58 image and came
\* back 30x30.
C10_Witness ==
    /\ qr.pc = "done"
    /\ qr.size = 30 /\ qr.qr_width = 29
    /\ qr.module_size = 2 /\ qr.actual_size = 58
    /\ qr.resized
    /\ qr.img = <<30, 30>>

----------------------------------------------------------------------------
(* The alpha compositor.  One pixel of a ticket is followed from the fresh  *)
(* buffer of TicketRenderer::render through the template copy and the       *)
(* stamps drawn over it to the compositing of the ticket onto the sheet.    *)
(* A pixel is <<r, g, b, a>>; alpha is a rational <<n, d>>.  A blended      *)
(* channel is exact where alpha is 0 or 1, and within one unit of the f32   *)
(* result elsewhere.                                                        *)

\* (src as f32 * alpha + bg as f32 * inv_alpha) as u8
BlendChannel(src, bg, alpha) ==
    (src * alpha[1] + bg * (alpha[2] - alpha[1])) \div alpha[2]

\* ticket_renderer.rs blend_pixel, reached from its composite_image: alpha
\* is the source pixel's, the result is opaque
BlendPixel(bg, color) ==
    LET alpha == <<color[4], 255>>
    IN <<BlendChannel(color[1], bg[1], alpha), BlendChannel(color[2], bg[2], alpha),
         BlendChannel(color[3], bg[3], alpha), 255>>

\* lib.rs composite_image, one pixel: the same blend, written out again
CompositePixel(bg, pixel) ==
    LET alpha == <<pixel[4], 255>>
    IN <<BlendChannel(pixel[1], bg[1], alpha), BlendChannel(pixel[2], bg[2], alpha),
         BlendChannel(pixel[3], bg[3], alpha), 255>>

\* coverage * (color[3] as f32 / 255.0)
GlyphAlpha(color, coverage) == <<coverage[1] * color[4], coverage[2] * 255>>

\* render_text_stamp, one covered pixel of a glyph
GlyphPixel(bg, color, coverage) ==
    LET alpha == GlyphAlpha(color, coverage)
    IN <<BlendChannel(color[1], bg[1], alpha), BlendChannel(color[2], bg[2], alpha),
         BlendChannel(color[3], bg[3], alpha), 255>>

\* img.put_pixel(x, y, *pixel): the scaled template's pixel, as it is
TemplateCopyPixel(pixel) == pixel

White == <<255, 255, 255, 255>>

Black == <<0, 0, 0, 255>>

\* Pixels of the scaled template: opaque, half and fully transparent
TemplatePixels == {White, Black, <<10, 200, 30, 255>>, <<10, 200, 30, 128>>, <<10, 200, 30, 0>>}

\* What parse_color yields for a stamp's colour
TextColors == {Black, <<200, 0, 0, 128>>, <<0, 0, 0, 0>>}

\* Glyph coverage, a fraction above 0
Coverages == {<<1, 2>>, <<1, 1>>}

\* generate_barcode and generate_qr_code draw opaque black and white only
StampPixels == {Black, White}

NoWrite == [site |-> "none", alpha |-> <<0, 1>>, src |-> <<0, 0, 0, 0>>,
            before |-> <<0, 0, 0, 0>>, after |-> <<0, 0, 0, 0>>]

\* ImageBuffer::new is zero-filled; the sheet is filled with opaque white.
PxInit ==
    px = [stage |-> "new", ticket |-> <<0, 0, 0, 0>>, sheet |-> White,
          stamps |-> 0, last |-> NoWrite]

\* render, lines 100-110: the scaled template is copied into the ticket.
CopyTemplate ==
    /\ px.stage = "new"
    /\ \E p \in TemplatePixels :
        px' = [px EXCEPT
            !.stage = "stamps",
            !.ticket = TemplateCopyPixel(p),
            !.last = [site |-> "template", alpha |-> <<p[4], 255>>, src |-> p,
                      before |-> px.ticket, after |-> TemplateCopyPixel(p)]]
    /\ UNCHANGED notPxVars

\* render_text_stamp, lines 199-217: a glyph of a text stamp covers the pixel.
DrawGlyph ==
    /\ px.stage = "stamps"
    /\ px.stamps < MaxStamps
    /\ \E color \in TextColors, coverage \in Coverages :
        px' = [px EXCEPT
            !.stamps = px.stamps + 1,
            !.ticket = GlyphPixel(px.ticket, color, coverage),
            !.last = [site |-> "glyph", alpha |-> GlyphAlpha(color, coverage),
                      src |-> color, before |-> px.ticket,
                      after |-> GlyphPixel(px.ticket, color, coverage)]]
    /\ UNCHANGED notPxVars

\* render_barcode_stamp / render_qr_stamp: the stamp's image is composited
\* over the pixel (ticket_renderer.rs composite_image, blend_pixel).
OverlayStamp ==
    /\ px.stage = "stamps"
    /\ px.stamps < MaxStamps
    /\ \E p \in StampPixels :
        px' = [px EXCEPT
            !.stamps = px.stamps + 1,
            !.ticket = BlendPixel(px.ticket, p),
            !.last = [site |-> "stamp", alpha |-> <<p[4], 255>>, src |-> p,
                      before |-> px.ticket, after |-> BlendPixel(px.ticket, p)]]
    /\ UNCHANGED notPxVars

\* render_sheet, line 152: the finished ticket is composited onto the sheet.
CompositeOntoSheet ==
    /\ px.stage = "stamps"
    /\ px' = [px EXCEPT
            !.stage = "done",
            !.sheet = CompositePixel(px.sheet, px.ticket),
            !.last = [site |-> "sheet", alpha |-> <<px.ticket[4], 255>>,
                      src |-> px.ticket, before |-> px.sheet,
                      after |-> CompositePixel(px.sheet, px.ticket)]]
    /\ UNCHANGED notPxVars

PxNext == CopyTemplate \/ DrawGlyph \/ OverlayStamp \/ CompositeOntoSheet

\* C8 (the claim as stated): at every compositing site (glyph, stamp
\* overlay, sheet) a write with alpha 0 leaves the destination pixel as it
\* was, a write with alpha 1 makes it the source in every channel, and the
\* pixel written has alpha 255.
C8_BlendEndpoints ==
    px.last.site \in {"glyph", "stamp", "sheet"} =>
        /\ px.last.alpha[1] = 0 => px.last.after = px.last.before
        /\ px.last.alpha[1] = px.last.alpha[2] =>
             px.last.after = <<px.last.src[1], px.last.src[2], px.last.src[3], 255>>
        /\ px.last.after[4] = 255

----------------------------------------------------------------------------
(* generate_pdf, the vector export.  Its code is not among the sources; it  *)
(* is modelled from the specification's sections 4.6 and 6: pre-rendered    *)
(* tickets are placed row-major, and a new page is started when the         *)
(* tickets-per-page count is exhausted.                                     *)

\* Every ticket on the first page.
PdfSlotOnePage(i, per_page, cols) ==
    [page |-> 1, row |-> (i % per_page) \div cols, col |-> (i % per_page) % cols]

\* The page, row and column of ticket i on a grid of cols columns holding
\* per_page tickets a page.
PdfSlot(i, per_page, cols) ==
    [page |-> i \div per_page + 1,
     row |-> (i % per_page) \div cols,
     col |-> (i % per_page) % cols]

PdfInit ==
    \E r \in 0..MaxRows, c \in 0..MaxCols, n \in 0..MaxTickets :
        pdf = [pc |-> "start", rows |-> r, cols |-> c, n_tickets |-> n,
               i |-> 0, pages |-> <<>>]

\* The checks of section 6: a degenerate grid and an input without one
\* complete ticket are errors.
PdfBegin ==
    /\ pdf.pc = "start"
    /\ pdf' = [pdf EXCEPT
            !.pc = IF pdf.rows * pdf.cols = 0 \/ pdf.n_tickets = 0
                   THEN "error" ELSE "loop"]
    /\ UNCHANGED notPdfVars

\* One ticket is placed; a page is started when the ticket's page is new.
PdfPlaceTicket ==
    /\ pdf.pc = "loop"
    /\ pdf.i < pdf.n_tickets
    /\ LET at == PdfSlot(pdf.i, pdf.rows * pdf.cols, pdf.cols)
           entry == [ticket |-> pdf.i, row |-> at.row, col |-> at.col]
       IN pdf' = [pdf EXCEPT
               !.i = pdf.i + 1,
               !.pages = IF at.page > Len(pdf.pages)
                         THEN Append(pdf.pages, <<entry>>)
                         ELSE [pdf.pages EXCEPT
                                 ![at.page] = Append(pdf.pages[at.page], entry)]]
    /\ UNCHANGED notPdfVars

\* Every ticket is placed; the document is written.
PdfReturn ==
    /\ pdf.pc = "loop"
    /\ pdf.i = pdf.n_tickets
    /\ pdf' = [pdf EXCEPT !.pc = "done"]
    /\ UNCHANGED notPdfVars

PdfNext == PdfBegin \/ PdfPlaceTicket \/ PdfReturn

\* C6: generate_pdf given n tickets and a rows x cols grid produces
\* ceil(n / (rows*cols)) pages; ticket i is on page i / (rows*cols), at row
\* (i % (rows*cols)) / cols and column (i % (rows*cols)) % cols; 5 tickets on
\* a 2x2 grid give 2 pages, the 5th ticket alone on the second at row 0,
\* column 0.
C6_PdfPaginates ==
    LET per == pdf.rows * pdf.cols
    IN /\ pdf.pc \in {"loop", "done"} =>
            \A p \in 1..Len(pdf.pages) :
                \A k \in 1..Len(pdf.pages[p]) :
                    LET e == pdf.pages[p][k]
                    IN /\ e.ticket = (p - 1) * per + (k - 1)
                       /\ k <= per
                       /\ e.row = (k - 1) \div pdf.cols
                       /\ e.col = (k - 1) % pdf.cols
       /\ pdf.pc = "done" =>
            /\ (Len(pdf.pages) - 1) * per < pdf.n_tickets
            /\ pdf.n_tickets <= Len(pdf.pages) * per
            /\ \A p \in 1..Len(pdf.pages) : Len(pdf.pages[p]) > 0
       /\ (pdf.pc = "done" /\ pdf.n_tickets = 5 /\ pdf.rows = 2 /\ pdf.cols = 2) =>
            /\ Len(pdf.pages) = 2
            /\ pdf.pages[2] = <<[ticket |-> 4, row |-> 0, col |-> 0]>>

\* C6 witness: 5 tickets on a 2x2 grid were exported on 2 pages.
C6_Witness ==
    /\ pdf.pc = "done"
    /\ pdf.n_tickets = 5 /\ pdf.rows = 2 /\ pdf.cols = 2
    /\ Len(pdf.pages) = 2
    /\ Len(pdf.pages[1]) = 4
    /\ pdf.pages[2] = <<[ticket |-> 4, row |-> 0, col |-> 0]>>

----------------------------------------------------------------------------
(* font_loader.rs: load_font and the font cache.  Several calls of          *)
(* load_font are in flight at once; a call gives way to the others at its   *)
(* two awaits and wherever it waits for the mutex of the cache.             *)
(* clear_font_cache is dead code and is not called.                         *)

Loads == 1..MaxLoads

FontNames == {"Roboto", "Mono"}

\* The bodies a font URL answers with, as sequences of chunks.
Bodies == {<<1, 2>>, <<3, 4>>}

\* Option<Vec<u8>>: None is the empty sequence, Some(b) is <<b>>.
None == <<>>

Some(b) == <<b>>

\* An insert that stores all but the last chunk.
CacheInsertPartial(map, font_name, font_data) ==
    [map EXCEPT ![font_name] = Some(SubSeq(font_data, 1, Len(font_data) - 1))]

\* cache.insert(font_name.to_string(), font_data.clone())
CacheInsert(map, font_name, font_data) ==
    [map EXCEPT ![font_name] = Some(font_data)]

\* cache.get(font_name), cloned
CacheGet(map, font_name) == map[font_name]

LoadIdle ==
    [pc |-> "idle", error |-> "none", font_name |-> "none",
     hit |-> FALSE, fetched |-> FALSE, body_read |-> FALSE,
     font_data |-> <<>>, inserted |-> FALSE, result |-> None]

\* lazy_static: an unlocked mutex around an empty map.
FontInit ==
    /\ FONT_CACHE = [locked_by |-> 0, map |-> [n \in FontNames |-> None]]
    /\ loads = [c \in Loads |-> LoadIdle]

\* Line 13: the call is made.
LoadFontBegin(c) ==
    /\ loads[c].pc = "idle"
    /\ \E name \in FontNames :
        loads' = [loads EXCEPT ![c].pc = "check", ![c].font_name = name]
    /\ UNCHANGED FONT_CACHE
    /\ UNCHANGED notFontVars

\* Line 16: FONT_CACHE.lock() of the first block, once the mutex is free.
LoadFontLockCheck(c) ==
    /\ loads[c].pc = "check"
    /\ FONT_CACHE.locked_by = 0
    /\ FONT_CACHE' = [FONT_CACHE EXCEPT !.locked_by = c]
    /\ loads' = [loads EXCEPT ![c].pc = "lookup"]
    /\ UNCHANGED notFontVars

\* Lines 17-30: the lookup under the lock.  A hit returns the clone; the
\* guard is dropped at the return or at the end of the block.  On a miss
\* the request is built (which may fail) and the fetch is started: the
\* call is suspended at the first await.
LoadFontLookup(c) ==
    /\ loads[c].pc = "lookup"
    /\ FONT_CACHE' = [FONT_CACHE EXCEPT !.locked_by = 0]
    /\ LET found == CacheGet(FONT_CACHE.map, loads[c].font_name)
       IN IF found # None
          THEN loads' = [loads EXCEPT ![c].pc = "done", ![c].hit = TRUE,
                                      ![c].result = found]
          ELSE \E request_ok \in BOOLEAN :
                  IF request_ok
                  THEN loads' = [loads EXCEPT ![c].pc = "fetch",
                                              ![c].fetched = TRUE]
                  ELSE loads' = [loads EXCEPT ![c].pc = "error",
                                              ![c].error = "No window object"]
    /\ UNCHANGED notFontVars

\* Lines 30-43: the fetch settles.  A rejected fetch and a response that is
\* not ok end the call; else the body is asked for and the call is
\* suspended at the second await.
LoadFontFetched(c) ==
    /\ loads[c].pc = "fetch"
    /\ \E outcome \in {"rejected", "not ok", "ok"} :
        loads' = [loads EXCEPT
            ![c].pc = IF outcome = "ok" THEN "body" ELSE "error",
            ![c].error = IF outcome = "rejected" THEN "fetch rejected"
                         ELSE IF outcome = "not ok" THEN "Failed to fetch font"
                         ELSE "none"]
    /\ UNCHANGED FONT_CACHE
    /\ UNCHANGED notFontVars

\* Lines 43-45: the body settles: rejected, or all of its bytes at once.
LoadFontBody(c) ==
    /\ loads[c].pc = "body"
    /\ \/ loads' = [loads EXCEPT ![c].pc = "error",
                                 ![c].error = "body rejected"]
       \/ \E b \in Bodies :
            loads' = [loads EXCEPT ![c].pc = "store", ![c].body_read = TRUE,
                                   ![c].font_data = b]
    /\ UNCHANGED FONT_CACHE
    /\ UNCHANGED notFontVars

\* Line 49: FONT_CACHE.lock() of the second block, once the mutex is free.
LoadFontLockInsert(c) ==
    /\ loads[c].pc = "store"
    /\ FONT_CACHE.locked_by = 0
    /\ FONT_CACHE' = [FONT_CACHE EXCEPT !.locked_by = c]
    /\ loads' = [loads EXCEPT ![c].pc = "insert"]
    /\ UNCHANGED notFontVars

\* Lines 50-53: the insert under the lock, the guard dropped, Ok(font_data).
LoadFontInsert(c) ==
    /\ loads[c].pc = "insert"
    /\ FONT_CACHE' = [locked_by |-> 0,
                      map |-> CacheInsert(FONT_CACHE.map, loads[c].font_name,
                                          loads[c].font_data)]
    /\ loads' = [loads EXCEPT ![c].pc = "done", ![c].inserted = TRUE,
                              ![c].result = Some(loads[c].font_data)]
    /\ UNCHANGED notFontVars

FontNext ==
    \/ \E c \in Loads : LoadFontBegin(c)
    \/ \E c \in Loads : LoadFontLockCheck(c)
    \/ \E c \in Loads : LoadFontLookup(c)
    \/ \E c \in Loads : LoadFontFetched(c)
    \/ \E c \in Loads : LoadFontBody(c)
    \/ \E c \in Loads : LoadFontLockInsert(c)
    \/ \E c \in Loads : LoadFontInsert(c)

\* The bodies that calls for a name have read to the end.
FinishedBodies(name) ==
    { loads[c].font_data :
        c \in { d \in Loads : loads[d].font_name = name /\ loads[d].body_read } }

\* C13: under every interleaving of the calls of load_font, a call that
\* returns Ok returns the whole body of a finished fetch for its name (its
\* own, or the one a cache entry was made of); every cache entry is the
\* whole body of a finished fetch for that name, put there by a call that
\* got through its fetch; no call holds the cache's lock while it is
\* suspended at the fetch or at the body; a call that found its name in the
\* cache has returned without fetching; and a call that ended in an error
\* has inserted nothing.  Two calls may both fetch the same name.
C13_FontCacheSafe ==
    /\ \A c \in Loads :
        /\ loads[c].pc = "done" =>
              /\ loads[c].result # None
              /\ loads[c].result[1] \in FinishedBodies(loads[c].font_name)
        /\ loads[c].pc \in {"fetch", "body"} => FONT_CACHE.locked_by # c
        /\ FONT_CACHE.locked_by = c => loads[c].pc \in {"lookup", "insert"}
        /\ loads[c].hit => loads[c].pc = "done" /\ ~loads[c].fetched
        /\ loads[c].pc = "error" => ~loads[c].inserted /\ loads[c].result = None
    /\ \A n \in FontNames :
        FONT_CACHE.map[n] # None =>
            /\ FONT_CACHE.map[n][1] \in FinishedBodies(n)
            /\ FONT_CACHE.map[n][1] \in Bodies
            /\ \E c \in Loads :
                /\ loads[c].inserted
                /\ loads[c].font_name = n
                /\ loads[c].font_data = FONT_CACHE.map[n][1]

\* C13 witness: two calls for one name raced, both missed the cache, both
\* fetched and read different bodies, and both returned; the cache holds
\* the body of the one that inserted last.
C13_Witness ==
    /\ loads[1].pc = "done" /\ loads[2].pc = "done"
    /\ loads[1].font_name = loads[2].font_name
    /\ loads[1].fetched /\ loads[2].fetched
    /\ loads[1].result # loads[2].result
    /\ FONT_CACHE.map[loads[1].font_name] = loads[1].result

----------------------------------------------------------------------------
(* composite_image, the same loop in lib.rs and in ticket_renderer.rs: an   *)
(* overlay is blended onto a base image at (x, y), pixel by pixel.          *)

\* <<base_w, base_h>>
BaseSizes == {<<3, 2>>, <<2, 2>>}

\* u32::MAX, which `as u32` gives for a stamp position of 2^32 or more.
U32Max == <<3, Pow30 - 1>>

\* The x and the y of a placement: inside the base, on its edge, outside
\* it, and at the top of the u32 range.
Placements == {ToWide(0), ToWide(1), ToWide(2), ToWide(3), U32Max}

\* a + n in full, for a u32 a and a small n.
AddFull(a, n) == <<a[1] + ((a[2] + n) \div Pow30), (a[2] + n) % Pow30>>

\* !(bx >= base_w || by >= base_h)
InBase(bx, by, base_w, base_h) ==
    /\ bx[1] = 0 /\ bx[2] < base_w
    /\ by[1] = 0 /\ by[2] < base_h

CompIdle ==
    [pc |-> "idle", error |-> "none", base_w |-> 0, base_h |-> 0,
     overlay_w |-> 0, overlay_h |-> 0, x |-> ToWide(0), y |-> ToWide(0),
     ox |-> 0, oy |-> 0, base |-> <<>>]

CompInit == comp = CompIdle

\* The call: base maps each pixel of the base image to <<>> while it is as
\* it was, and to the overlay pixel <<ox, oy>> last blended onto it.
CompBegin ==
    /\ comp.pc = "idle"
    /\ \E b \in BaseSizes, w \in 0..MaxOverlayDim, h \in 0..MaxOverlayDim,
          x \in Placements, y \in Placements :
        comp' = [comp EXCEPT
            !.pc = "loop", !.base_w = b[1], !.base_h = b[2],
            !.overlay_w = w, !.overlay_h = h, !.x = x, !.y = y,
            !.base = [q \in (0..(b[1] - 1)) \X (0..(b[2] - 1)) |-> <<>>]]
    /\ UNCHANGED notCompVars

\* One pass through the body of the inner loop, for the overlay pixel
\* (ox, oy): bx = x + ox and by = y + oy in u32 (an overflow panics in a
\* debug build and wraps in a release build), the clip, the blend.
CompPixel ==
    /\ comp.pc = "loop"
    /\ comp.oy < comp.overlay_h
    /\ comp.overlay_w > 0
    /\ \E build \in Builds :
        LET sx == AddFull(comp.x, comp.ox)
            sy == AddFull(comp.y, comp.oy)
            bx == WrapU32(sx)
            by == WrapU32(sy)
            last == comp.ox + 1 = comp.overlay_w
        IN IF build = "debug" /\ (OverflowsU32(sx) \/ OverflowsU32(sy))
           THEN comp' = [comp EXCEPT !.pc = "panic",
                                     !.error = "attempt to add with overflow"]
           ELSE comp' = [comp EXCEPT
                    !.ox = IF last THEN 0 ELSE comp.ox + 1,
                    !.oy = IF last THEN comp.oy + 1 ELSE comp.oy,
                    !.base = IF InBase(bx, by, comp.base_w, comp.base_h)
                             THEN [comp.base EXCEPT ![<<bx[2], by[2]>>] =
                                      <<comp.ox, comp.oy>>]
                             ELSE comp.base]
    /\ UNCHANGED notCompVars

\* Both loops are over.
CompReturn ==
    /\ comp.pc = "loop"
    /\ comp.oy = comp.overlay_h \/ comp.overlay_w = 0
    /\ comp' = [comp EXCEPT !.pc = "done"]
    /\ UNCHANGED notCompVars

CompNext ==
    \/ CompBegin
    \/ CompPixel
    \/ CompReturn

\* C14 (the claim as stated): for every overlay size and placement (x, y),
\* composite_image does not fail, and a destination pixel it has written
\* lies inside the destination and inside the overlay's footprint
\* [x, x + overlay_w) x [y, y + overlay_h); every other destination pixel
\* is as it was.
C14_CompositeClipped ==
    /\ comp.pc # "panic"
    /\ \A q \in DOMAIN comp.base :
        comp.base[q] # <<>> =>
            /\ q[1] < comp.base_w /\ q[2] < comp.base_h
            /\ comp.x[1] = 0 /\ comp.x[2] <= q[1]
            /\ q[1] < comp.x[2] + comp.overlay_w
            /\ comp.y[1] = 0 /\ comp.y[2] <= q[2]
            /\ q[2] < comp.y[2] + comp.overlay_h

----------------------------------------------------------------------------
(* Specifications: each runs one part of the program, the rest at rest.    *)

SheetAtRest == config = <<>> /\ rs = <<>> /\ pv = <<>>

ResolveAtRest == template = <<>> /\ record = <<>> /\ resolve = <<>>

FitAtRest == fit = <<>>

TextAtRest == text = <<>>

QrAtRest == qr = <<>>

PxAtRest == px = <<>>

PdfAtRest == pdf = <<>>

FontAtRest == FONT_CACHE = <<>> /\ loads = <<>>

CompAtRest == comp = <<>>

SheetSpecInit ==
    /\ SheetInit
    /\ ResolveAtRest
    /\ FitAtRest
    /\ TextAtRest
    /\ QrAtRest
    /\ PxAtRest
    /\ PdfAtRest
    /\ FontAtRest
    /\ CompAtRest

SheetSpec == SheetSpecInit /\ [][SheetNext]_vars

ResolveSpecInit ==
    /\ ResolveInit
    /\ SheetAtRest
    /\ FitAtRest
    /\ TextAtRest
    /\ QrAtRest
    /\ PxAtRest
    /\ PdfAtRest
    /\ FontAtRest
    /\ CompAtRest

ResolveSpec == ResolveSpecInit /\ [][ResolveNext]_vars

FitSpecInit ==
    /\ FitInit
    /\ SheetAtRest
    /\ ResolveAtRest
    /\ TextAtRest
    /\ QrAtRest
    /\ PxAtRest
    /\ PdfAtRest
    /\ FontAtRest
    /\ CompAtRest

FitSpec == FitSpecInit /\ [][FitNext]_vars

TextSpecInit ==
    /\ TextInit
    /\ SheetAtRest
    /\ ResolveAtRest
    /\ FitAtRest
    /\ QrAtRest
    /\ PxAtRest
    /\ PdfAtRest
    /\ FontAtRest
    /\ CompAtRest

TextSpec == TextSpecInit /\ [][TextNext]_vars

QrSpecInit ==
    /\ QrInit
    /\ SheetAtRest
    /\ ResolveAtRest
    /\ FitAtRest
    /\ TextAtRest
    /\ PxAtRest
    /\ PdfAtRest
    /\ FontAtRest
    /\ CompAtRest

QrSpec == QrSpecInit /\ [][QrNext]_vars

PxSpecInit ==
    /\ PxInit
    /\ SheetAtRest
    /\ ResolveAtRest
    /\ FitAtRest
    /\ TextAtRest
    /\ QrAtRest
    /\ PdfAtRest
    /\ FontAtRest
    /\ CompAtRest

PxSpec == PxSpecInit /\ [][PxNext]_vars

PdfSpecInit ==
    /\ PdfInit
    /\ SheetAtRest
    /\ ResolveAtRest
    /\ FitAtRest
    /\ TextAtRest
    /\ QrAtRest
    /\ PxAtRest
    /\ FontAtRest
    /\ CompAtRest

PdfSpec == PdfSpecInit /\ [][PdfNext]_vars

FontSpecInit ==
    /\ FontInit
    /\ SheetAtRest
    /\ ResolveAtRest
    /\ FitAtRest
    /\ TextAtRest
    /\ QrAtRest
    /\ PxAtRest
    /\ PdfAtRest
    /\ CompAtRest

FontSpec == FontSpecInit /\ [][FontNext]_vars

CompSpecInit ==
    /\ CompInit
    /\ SheetAtRest
    /\ ResolveAtRest
    /\ FitAtRest
    /\ TextAtRest
    /\ QrAtRest
    /\ PxAtRest
    /\ PdfAtRest
    /\ FontAtRest

CompSpec == CompSpecInit /\ [][CompNext]_vars

====
